---------------------------- MODULE Spec2Model ----------------------------
(***************************************************************************)
(* RingBuffer<T> of src/utils/ring_buffer.rs: a Vec<T> (`elements`) and a  *)
(* signed rotation offset (`current_index: isize`), with indexed access,   *)
(* rotate, resize and the two iterators.                                   *)
(*                                                                         *)
(* Physical slot p of the Vec is elements[p + 1] here (TLA+ sequences are  *)
(* 1-based).  An Option<T> is a sequence of length 0 (None) or 1 (Some).   *)
(* A panic leaves the buffer as it was at the point of the panic and is    *)
(* recorded in `last`.                                                     *)
(***************************************************************************)
EXTENDS Integers, Sequences, FiniteSets, TLC

VARIABLES
    elements,           \* RingBuffer::elements, the physical storage
    current_index,      \* RingBuffer::current_index, the rotation offset
    overflow_checks,    \* build profile: TRUE = overflow-checked (debug)
    RingBufferIter,     \* the live immutable iterator, if any
    RingBufferIterMut,  \* the live mutable iterator, if any
    last                \* the last call: its arguments, pre-state and outcome

vars == <<elements, current_index, overflow_checks,
          RingBufferIter, RingBufferIterMut, last>>

----------------------------------------------------------------------------
(* Bounds of the model *)

MaxSize == 3      \* sizes given to new and resize are 0..MaxSize
MaxIndex == 4     \* logical indices are -MaxIndex..MaxIndex
MaxDelta == 4     \* rotate deltas are -MaxDelta..MaxDelta
MaxOffset == 4    \* Spec keeps |current_index| <= MaxOffset
IsizeBits == 6    \* width of isize in the model

Values == {0, 1}                   \* the element type T
Sizes == 0 .. MaxSize
Indices == (-MaxIndex) .. MaxIndex
Deltas == (-MaxDelta) .. MaxDelta

----------------------------------------------------------------------------
(* isize / usize arithmetic *)

IsizeMin == -(2 ^ (IsizeBits - 1))
IsizeMax == (2 ^ (IsizeBits - 1)) - 1

\* two's-complement reduction of a mathematical integer into isize
WrapIsize(x) == ((x - IsizeMin) % (2 ^ IsizeBits)) + IsizeMin

\* `index.as_()`: AsPrimitive<isize>, an `as` cast
as_isize(x) == WrapIsize(x)

\* `... as usize`: reinterpretation of an isize as unsigned
as_usize(x) == x % (2 ^ IsizeBits)

\* mutant: saturating addition
add_isize_saturating(a, b, checks) ==
    LET s == a + b IN
    [panic |-> FALSE,
     value |-> IF s < IsizeMin THEN IsizeMin
               ELSE IF s > IsizeMax THEN IsizeMax ELSE s]

\* isize `+` / `+=`: panics when overflow checks are on, wraps otherwise
add_isize(a, b, checks) ==
    LET s == a + b IN
    IF s >= IsizeMin /\ s <= IsizeMax
    THEN [panic |-> FALSE, value |-> s]
    ELSE IF checks
         THEN [panic |-> TRUE, value |-> 0]
         ELSE [panic |-> FALSE, value |-> WrapIsize(s)]

\* Rust's `%` on isize: truncated remainder, the sign of the dividend (b > 0)
TruncRem(a, b) == IF a >= 0 THEN a % b ELSE -((-a) % b)

\* mutant: the magnitude of the truncated remainder
rem_euclid_abs(a, b) ==
    LET r == TruncRem(a, b) IN
    IF r < 0 THEN -r ELSE r

\* isize::rem_euclid for a divisor b > 0: r = a % b; if r < 0 { r + |b| }
rem_euclid(a, b) ==
    LET r == TruncRem(a, b) IN
    IF r < 0 THEN r + b ELSE r

----------------------------------------------------------------------------
(* Vec<T> operations used by the buffer *)

None == << >>
Some(x) == << x >>

Fill(n, value) == [j \in 1 .. n |-> value]

\* Vec::resize(new_len, value): truncate, or extend with clones of value
vec_resize(vec, new_len, value) ==
    IF new_len > Len(vec)
    THEN vec \o Fill(new_len - Len(vec), value)
    ELSE SubSeq(vec, 1, new_len)

\* slice::rotate_left(mid): the first mid elements move to the end
rotate_left(vec, mid) ==
    SubSeq(vec, mid + 1, Len(vec)) \o SubSeq(vec, 1, mid)

----------------------------------------------------------------------------
(* RingBuffer<T> *)

\* mutant: Vec::with_capacity(size) in place of the fill
new_with_capacity(size, default_value) ==
    [elements |-> << >>, current_index |-> 0]

\* RingBuffer::new(size, default_value)
new(size, default_value) ==
    [elements |-> vec_resize(<< >>, size, default_value),
     current_index |-> 0]

is_empty(elems) == Len(elems) = 0

len(elems) == Len(elems)

\* mutant: an empty buffer maps every index to slot 0
get_array_index_zero(elems, cur, idx, checks) ==
    LET num == Len(elems)
        sum == add_isize(cur, idx, checks)
    IN  IF sum.panic
        THEN [panic |-> TRUE, value |-> 0]
        ELSE IF num = 0
             THEN [panic |-> FALSE, value |-> 0]
             ELSE [panic |-> FALSE,
                   value |-> as_usize(rem_euclid(sum.value, num))]

\* mutant: `%` in place of rem_euclid
get_array_index_trunc(elems, cur, idx, checks) ==
    LET num == Len(elems)
        sum == add_isize(cur, idx, checks)
    IN  IF sum.panic \/ num = 0
        THEN [panic |-> TRUE, value |-> 0]
        ELSE [panic |-> FALSE, value |-> as_usize(TruncRem(sum.value, num))]

\* RingBuffer::get_array_index: (current_index + index).rem_euclid(len) as usize
\* The addition may overflow; rem_euclid panics on a zero divisor.
get_array_index(elems, cur, idx, checks) ==
    LET num == Len(elems)
        sum == add_isize(cur, idx, checks)
    IN  IF sum.panic \/ num = 0
        THEN [panic |-> TRUE, value |-> 0]
        ELSE [panic |-> FALSE, value |-> as_usize(rem_euclid(sum.value, num))]

\* Index::index: the slot computed, then the bounds-checked read of elements
index(elems, cur, idx, checks) ==
    LET ai == get_array_index(elems, cur, as_isize(idx), checks) IN
    IF ai.panic
    THEN [panic |-> TRUE, slot |-> None, ret |-> None]
    ELSE IF ai.value >= Len(elems)
         THEN [panic |-> TRUE, slot |-> Some(ai.value), ret |-> None]
         ELSE [panic |-> FALSE, slot |-> Some(ai.value),
               ret |-> Some(elems[ai.value + 1])]

\* mutant: the write placed at index mod len, the rotation offset ignored
index_mut_unrotated(elems, cur, idx, value, checks) ==
    IF Len(elems) = 0
    THEN [panic |-> TRUE, slot |-> None, elements |-> elems]
    ELSE LET p == as_usize(rem_euclid(as_isize(idx), Len(elems))) IN
         [panic |-> FALSE, slot |-> Some(p),
          elements |-> [elems EXCEPT ![p + 1] = value]]

\* IndexMut::index_mut followed by the assignment through the reference
index_mut(elems, cur, idx, value, checks) ==
    LET ai == get_array_index(elems, cur, as_isize(idx), checks) IN
    IF ai.panic
    THEN [panic |-> TRUE, slot |-> None, elements |-> elems]
    ELSE IF ai.value >= Len(elems)
         THEN [panic |-> TRUE, slot |-> Some(ai.value), elements |-> elems]
         ELSE [panic |-> FALSE, slot |-> Some(ai.value),
               elements |-> [elems EXCEPT ![ai.value + 1] = value]]

\* mutant: current_index = num
rotate_assign(cur, num, checks) ==
    [panic |-> FALSE, current_index |-> num]

\* mutant: current_index -= num
rotate_sub(cur, num, checks) ==
    LET sum == add_isize(cur, -num, checks) IN
    IF sum.panic
    THEN [panic |-> TRUE, current_index |-> cur]
    ELSE [panic |-> FALSE, current_index |-> sum.value]

\* RingBuffer::rotate: current_index += num
rotate(cur, num, checks) ==
    LET sum == add_isize(cur, num, checks) IN
    IF sum.panic
    THEN [panic |-> TRUE, current_index |-> cur]
    ELSE [panic |-> FALSE, current_index |-> sum.value]

\* mutant: no rotate_left before Vec::resize
resize_unrotated(elems, cur, new_size, default_value, checks) ==
    LET ai == get_array_index(elems, cur, 0, checks) IN
    IF ai.panic
    THEN [panic |-> TRUE, elements |-> elems, current_index |-> cur]
    ELSE [panic |-> FALSE,
          elements |-> vec_resize(elems, new_size, default_value),
          current_index |-> 0]

\* RingBuffer::resize: get_array_index(0), rotate_left, Vec::resize, offset 0
resize(elems, cur, new_size, default_value, checks) ==
    LET ai == get_array_index(elems, cur, 0, checks) IN
    IF ai.panic
    THEN [panic |-> TRUE, elements |-> elems, current_index |-> cur]
    ELSE [panic |-> FALSE,
          elements |-> vec_resize(rotate_left(elems, ai.value),
                                  new_size, default_value),
          current_index |-> 0]

\* mutant: `>` in place of `>=` in the end test
iter_next_gt(elems, cur, pos, checks) ==
    IF pos > Len(elems)
    THEN [panic |-> FALSE, ret |-> None, index |-> pos]
    ELSE LET r == index(elems, cur, pos, checks) IN
         IF r.panic
         THEN [panic |-> TRUE, ret |-> None, index |-> pos]
         ELSE [panic |-> FALSE, ret |-> r.ret, index |-> pos + 1]

\* RingBufferIter::next at iterator position pos
iter_next(elems, cur, pos, checks) ==
    IF pos >= Len(elems)
    THEN [panic |-> FALSE, ret |-> None, index |-> pos]
    ELSE LET r == index(elems, cur, pos, checks) IN
         IF r.panic
         THEN [panic |-> TRUE, ret |-> None, index |-> pos]
         ELSE [panic |-> FALSE, ret |-> r.ret, index |-> pos + 1]

\* mutant: elements.add(self.index), the rotation offset ignored
iter_mut_next_raw(elems, cur, pos, checks) ==
    IF pos >= Len(elems)
    THEN [panic |-> FALSE, slot |-> None, index |-> pos]
    ELSE [panic |-> FALSE, slot |-> Some(pos), index |-> pos + 1]

\* RingBufferIterMut::next at iterator position pos: the slot whose address
\* is handed out (elements.as_mut_ptr().add(array_index), no bounds check)
iter_mut_next(elems, cur, pos, checks) ==
    IF pos >= Len(elems)
    THEN [panic |-> FALSE, slot |-> None, index |-> pos]
    ELSE LET ai == get_array_index(elems, cur, as_isize(pos), checks) IN
         IF ai.panic
         THEN [panic |-> TRUE, slot |-> None, index |-> pos]
         ELSE [panic |-> FALSE, slot |-> Some(ai.value), index |-> pos + 1]

\* what a full traversal of iter() from position pos yields
RECURSIVE iter_from(_, _, _, _)
iter_from(elems, cur, pos, checks) ==
    LET r == iter_next(elems, cur, pos, checks) IN
    IF r.panic \/ r.ret = None
    THEN << >>
    ELSE r.ret \o iter_from(elems, cur, r.index, checks)

\* buffer.iter() collected
iter(elems, cur, checks) == iter_from(elems, cur, 0, checks)

----------------------------------------------------------------------------
(* State machine *)

NoIter == [live |-> FALSE, index |-> 0, ended |-> FALSE, out |-> << >>]
NoIterMut == [live |-> FALSE, index |-> 0, ended |-> FALSE,
              slots |-> << >>, src |-> << >>]

Call(op, arg, val, panicked, slot, ret) ==
    [op |-> op, arg |-> arg, val |-> val,
     pre_elements |-> elements, pre_index |-> current_index,
     panicked |-> panicked, slot |-> slot, ret |-> ret]

\* `&mut self` calls need the buffer unborrowed, `&self` calls need no
\* mutable iterator alive
Unborrowed == ~RingBufferIter.live /\ ~RingBufferIterMut.live
Shareable == ~RingBufferIterMut.live

Init ==
    /\ \E size \in Sizes, default_value \in Values :
          LET rb == new(size, default_value) IN
          /\ elements = rb.elements
          /\ current_index = rb.current_index
          /\ last = [op |-> "new", arg |-> size, val |-> Some(default_value),
                     pre_elements |-> << >>, pre_index |-> 0,
                     panicked |-> FALSE, slot |-> None, ret |-> None]
    /\ overflow_checks \in BOOLEAN
    /\ RingBufferIter = NoIter
    /\ RingBufferIterMut = NoIterMut

\* buffer[i]
Index(i) ==
    /\ Shareable
    /\ LET r == index(elements, current_index, i, overflow_checks) IN
       last' = Call("index", i, None, r.panic, r.slot, r.ret)
    /\ UNCHANGED <<elements, current_index, overflow_checks,
                   RingBufferIter, RingBufferIterMut>>

\* buffer[i] = v
IndexMut(i, v) ==
    /\ Unborrowed
    /\ LET r == index_mut(elements, current_index, i, v, overflow_checks) IN
       /\ elements' = r.elements
       /\ last' = Call("index_mut", i, Some(v), r.panic, r.slot, None)
    /\ UNCHANGED <<current_index, overflow_checks,
                   RingBufferIter, RingBufferIterMut>>

\* mutant: the rotation carried out on the storage, the offset left alone
RotateMoving(num) ==
    /\ Unborrowed
    /\ current_index + num >= -MaxOffset
    /\ current_index + num <= MaxOffset
    /\ elements' = IF Len(elements) = 0 THEN elements
                   ELSE rotate_left(elements, rem_euclid(num, Len(elements)))
    /\ last' = Call("rotate", num, None, FALSE, None, None)
    /\ UNCHANGED <<current_index, overflow_checks,
                   RingBufferIter, RingBufferIterMut>>

\* buffer.rotate(num)
Rotate(num) ==
    /\ Unborrowed
    /\ current_index + num >= -MaxOffset
    /\ current_index + num <= MaxOffset
    /\ LET r == rotate(current_index, num, overflow_checks) IN
       /\ current_index' = r.current_index
       /\ last' = Call("rotate", num, None, r.panic, None, None)
    /\ UNCHANGED <<elements, overflow_checks, RingBufferIter, RingBufferIterMut>>

\* buffer.resize(new_size, d)
Resize(new_size, d) ==
    /\ Unborrowed
    /\ LET r == resize(elements, current_index, new_size, d, overflow_checks) IN
       /\ elements' = r.elements
       /\ current_index' = r.current_index
       /\ last' = Call("resize", new_size, Some(d), r.panic, None, None)
    /\ UNCHANGED <<overflow_checks, RingBufferIter, RingBufferIterMut>>

\* let it = buffer.iter()
Iter ==
    /\ Shareable
    /\ ~RingBufferIter.live
    /\ RingBufferIter' = [NoIter EXCEPT !.live = TRUE]
    /\ last' = Call("iter", 0, None, FALSE, None, None)
    /\ UNCHANGED <<elements, current_index, overflow_checks, RingBufferIterMut>>

\* it.next()
IterNext ==
    /\ RingBufferIter.live
    /\ LET r == iter_next(elements, current_index, RingBufferIter.index,
                          overflow_checks) IN
       /\ RingBufferIter' =
            [RingBufferIter EXCEPT !.index = r.index,
                                   !.ended = (~r.panic /\ r.ret = None),
                                   !.out = @ \o r.ret]
       /\ last' = Call("iter_next", RingBufferIter.index, None, r.panic,
                       None, r.ret)
    /\ UNCHANGED <<elements, current_index, overflow_checks, RingBufferIterMut>>

\* drop(it)
IterDrop ==
    /\ RingBufferIter.live
    /\ RingBufferIter' = NoIter
    /\ last' = Call("iter_drop", 0, None, FALSE, None, None)
    /\ UNCHANGED <<elements, current_index, overflow_checks, RingBufferIterMut>>

\* let it = buffer.iter_mut()
IterMut ==
    /\ Unborrowed
    /\ RingBufferIterMut' = [NoIterMut EXCEPT !.live = TRUE]
    /\ last' = Call("iter_mut", 0, None, FALSE, None, None)
    /\ UNCHANGED <<elements, current_index, overflow_checks, RingBufferIter>>

\* one round of it.zip(s).for_each(|(a, b)| *a = *b): it.next(), and when it
\* yields a reference, the assignment of the next value v of s through it
IterMutNext(v) ==
    /\ RingBufferIterMut.live
    /\ LET r == iter_mut_next(elements, current_index, RingBufferIterMut.index,
                              overflow_checks)
           yielded == r.slot # None
       IN
       /\ RingBufferIterMut' =
            [RingBufferIterMut EXCEPT
                !.index = r.index,
                !.ended = (~r.panic /\ ~yielded),
                !.slots = @ \o r.slot,
                !.src = IF yielded THEN @ \o Some(v) ELSE @]
       /\ elements' = IF yielded /\ r.slot[1] < Len(elements)
                      THEN [elements EXCEPT ![r.slot[1] + 1] = v]
                      ELSE elements
       /\ last' = Call("iter_mut_next", RingBufferIterMut.index,
                       IF yielded THEN Some(v) ELSE None, r.panic, r.slot, None)
    /\ UNCHANGED <<current_index, overflow_checks, RingBufferIter>>

\* drop(it)
IterMutDrop ==
    /\ RingBufferIterMut.live
    /\ RingBufferIterMut' = NoIterMut
    /\ last' = Call("iter_mut_drop", 0, None, FALSE, None, None)
    /\ UNCHANGED <<elements, current_index, overflow_checks, RingBufferIter>>

Next ==
    \/ \E i \in Indices : Index(i)
    \/ \E i \in Indices, v \in Values : IndexMut(i, v)
    \/ \E num \in Deltas : Rotate(num)
    \/ \E new_size \in Sizes, d \in Values : Resize(new_size, d)
    \/ Iter
    \/ IterNext
    \/ IterDrop
    \/ IterMut
    \/ \E v \in Values : IterMutNext(v)
    \/ IterMutDrop

Spec == Init /\ [][Next]_vars

----------------------------------------------------------------------------
(* rotate and index over the whole isize range: the deltas and indices at  *)
(* the ends of the range, and no cap on the offset                         *)

WideDeltas == {IsizeMin, -1, 1, IsizeMax}
WideIndices == {IsizeMin, -1, 0, 1, IsizeMax}

\* buffer.rotate(num), any num: isize
RotateAny(num) ==
    /\ Unborrowed
    /\ LET r == rotate(current_index, num, overflow_checks) IN
       /\ current_index' = r.current_index
       /\ last' = Call("rotate", num, None, r.panic, None, None)
    /\ UNCHANGED <<elements, overflow_checks, RingBufferIter, RingBufferIterMut>>

NextWide ==
    \/ \E num \in WideDeltas : RotateAny(num)
    \/ \E i \in WideIndices : Index(i)

SpecWide == Init /\ [][NextWide]_vars

----------------------------------------------------------------------------
(* Properties *)

Range(seq) == {seq[j] : j \in 1 .. Len(seq)}

\* C1: with N > 0, index(i) and index_mut(i) succeed for every integer i and
\* access exactly the physical slot (rotation_offset + i) mod N (Euclidean),
\* which lies in 0..N-1: the read returns that slot's value, the write lands
\* in that slot.
C1_IndexMapping ==
    (last.op \in {"index", "index_mut"} /\ Len(last.pre_elements) > 0) =>
        LET N == Len(last.pre_elements)
            slot == (last.pre_index + last.arg) % N
        IN  /\ ~last.panicked
            /\ slot \in 0 .. N - 1
            /\ last.slot = Some(slot)
            /\ last.op = "index" =>
                   /\ last.ret = Some(last.pre_elements[slot + 1])
                   /\ elements = last.pre_elements
            /\ last.op = "index_mut" =>
                   elements = [last.pre_elements EXCEPT ![slot + 1] = last.val[1]]

\* a negative index of magnitude above N, read under a rotation that is not
\* a multiple of N
C1_Witness ==
    /\ last.op = "index"
    /\ Len(last.pre_elements) >= 2
    /\ last.arg < -Len(last.pre_elements)
    /\ last.pre_index % Len(last.pre_elements) # 0
    /\ ~last.panicked

\* C2: periodicity: with N > 0, buffer[i], buffer[i + N] and buffer[i - N]
\* are the same element for every i; buffer[-1] is buffer[N-1] and buffer[-2]
\* is buffer[N-2], also after rotations.
C2_Periodicity ==
    (last.op = "index" /\ Len(elements) > 0) =>
        LET N == Len(elements)
            at(i) == index(elements, current_index, i, overflow_checks)
            same(r) == ~r.panic /\ r.slot = last.slot /\ r.ret = last.ret
        IN  /\ ~last.panicked
            /\ same(at(last.arg + N))
            /\ same(at(last.arg - N))
            /\ last.arg = -1 => same(at(N - 1))
            /\ last.arg = -2 => same(at(N - 2))

\* buffer[-1] read from a rotated three-slot buffer whose slots differ
C2_Witness ==
    /\ last.op = "index"
    /\ last.arg = -1
    /\ Len(elements) = 3
    /\ current_index % 3 # 0
    /\ Range(elements) = Values
    /\ ~last.panicked

\* C3: rotation is a logical left shift: if iter() yields a before rotate(k),
\* N > 0, then after it iter() yields a[k mod N], a[(k+1) mod N], ...,
\* a[(k-1) mod N], and the old logical index k is the new logical index 0.
C3_RotateShift ==
    (last.op = "rotate" /\ Len(last.pre_elements) > 0) =>
        LET N == Len(last.pre_elements)
            k == last.arg
            a == iter(last.pre_elements, last.pre_index, overflow_checks)
            b == iter(elements, current_index, overflow_checks)
        IN  /\ ~last.panicked
            /\ Len(a) = N
            /\ b = [j \in 1 .. N |-> a[((k + j - 1) % N) + 1]]
            /\ index(elements, current_index, 0, overflow_checks).ret
                 = index(last.pre_elements, last.pre_index, k,
                         overflow_checks).ret

\* a backwards rotation, of magnitude above N, of an already rotated
\* three-slot buffer whose slots differ
C3_Witness ==
    /\ last.op = "rotate"
    /\ last.arg < -3
    /\ Len(elements) = 3
    /\ last.pre_index % 3 # 0
    /\ Range(elements) = Values
    /\ ~last.panicked

\* C4: after any resize(new_size, d), from any reachable state and for any
\* new_size, the rotation offset is 0 and buffer[0] is the element that was
\* at logical index 0 immediately before the call.
C4_ResizeResets ==
    last.op = "resize" =>
        /\ current_index = 0
        /\ (Len(last.pre_elements) > 0 /\ last.arg > 0) =>
              LET now == index(elements, current_index, 0, overflow_checks)
                  was == index(last.pre_elements, last.pre_index, 0,
                               overflow_checks)
              IN  ~now.panic /\ now.slot = Some(0) /\ now.ret = was.ret

\* C4, the part the code keeps: a resize of a non-empty buffer resets the
\* offset, and with new_size > 0 buffer[0] is the old logical index 0.
C4_ResizeResetsNonEmpty ==
    (last.op = "resize" /\ Len(last.pre_elements) > 0) => C4_ResizeResets

\* C5: resize grow: when new_size > len(), the logical order after
\* resize(new_size, d) is the previous logical order followed by
\* new_size - len() copies of d.
C5_ResizeGrow ==
    (last.op = "resize" /\ last.arg > Len(last.pre_elements)) =>
        LET a == iter(last.pre_elements, last.pre_index, overflow_checks)
            b == iter(elements, current_index, overflow_checks)
        IN  /\ ~last.panicked
            /\ Len(a) = Len(last.pre_elements)
            /\ Len(b) = last.arg
            /\ SubSeq(b, 1, Len(a)) = a
            /\ \A j \in Len(a) + 1 .. last.arg : b[j] = last.val[1]

\* C5, the part the code keeps: growing a non-empty buffer.
C5_ResizeGrowNonEmpty ==
    (last.op = "resize" /\ Len(last.pre_elements) > 0) => C5_ResizeGrow

\* C6: resize shrink: when new_size < len(), resize(new_size, d) keeps
\* exactly the first new_size elements of the previous logical order, in
\* that order, and nothing else (d is not inserted).
C6_ResizeShrink ==
    (last.op = "resize" /\ last.arg < Len(last.pre_elements)) =>
        LET a == iter(last.pre_elements, last.pre_index, overflow_checks)
            b == iter(elements, current_index, overflow_checks)
        IN  /\ ~last.panicked
            /\ Len(a) = Len(last.pre_elements)
            /\ Len(elements) = last.arg
            /\ current_index = 0
            /\ b = SubSeq(a, 1, last.arg)

\* a rotated buffer shrunk to a non-empty prefix that does not hold d, the
\* dropped part holding another value than the kept one
C6_Witness ==
    /\ last.op = "resize"
    /\ last.arg >= 1
    /\ last.arg < Len(last.pre_elements)
    /\ last.pre_index % Len(last.pre_elements) # 0
    /\ last.val[1] \notin Range(elements)
    /\ Range(last.pre_elements) = Values
    /\ ~last.panicked

\* C7: a traversal by iter_mut() yields the N logical positions 0..N-1 in
\* increasing order, once each, every reference addressing another physical
\* slot; after assigning a sequence s of length N through it, under any
\* rotation offset, iter() yields exactly s.
C7_IterMut ==
    RingBufferIterMut.live =>
        LET N == Len(elements)
            slots == RingBufferIterMut.slots
        IN  /\ Len(slots) = RingBufferIterMut.index
            /\ Len(slots) <= N
            /\ \A j \in 1 .. Len(slots) : slots[j] = (current_index + j - 1) % N
            /\ \A j, k \in 1 .. Len(slots) : slots[j] = slots[k] => j = k
            /\ RingBufferIterMut.ended =>
                  /\ Len(slots) = N
                  /\ Len(RingBufferIterMut.src) = N
                  /\ iter(elements, current_index, overflow_checks)
                       = RingBufferIterMut.src

\* a finished traversal of a rotated three-slot buffer that wrote a
\* sequence with differing values
C7_Witness ==
    /\ RingBufferIterMut.live
    /\ RingBufferIterMut.ended
    /\ Len(elements) = 3
    /\ current_index % 3 # 0
    /\ RingBufferIterMut.src[1] # RingBufferIterMut.src[3]

\* C8: an indexed read or write on a zero-capacity buffer, with any index,
\* fails fast: it panics, returns no element, uses no physical slot, and
\* leaves storage and offset as they were.
C8_EmptyIndexFails ==
    (last.op \in {"index", "index_mut"} /\ Len(last.pre_elements) = 0) =>
        /\ last.panicked
        /\ last.slot = None
        /\ last.ret = None
        /\ elements = last.pre_elements
        /\ current_index = last.pre_index

\* a write to an empty buffer whose offset was rotated away from 0
C8_Witness ==
    /\ last.op = "index_mut"
    /\ Len(last.pre_elements) = 0
    /\ last.pre_index # 0
    /\ last.arg # 0

\* C9: resize(new_size, d) completes for a buffer of any length N >= 0 and
\* any new_size >= 0, leaving len() = new_size; from an empty buffer it
\* yields new_size copies of d.
C9_ResizeCompletes ==
    last.op = "resize" =>
        /\ ~last.panicked
        /\ len(elements) = last.arg
        /\ Len(last.pre_elements) = 0 =>
              \A j \in 1 .. last.arg : elements[j] = last.val[1]

\* C10: new(N, v) gives len() = N, is_empty() = (N = 0), offset 0, and an
\* iter() of exactly N copies of v.
C10_NewFills ==
    last.op = "new" =>
        LET a == iter(elements, current_index, overflow_checks) IN
        /\ len(elements) = last.arg
        /\ is_empty(elements) = (last.arg = 0)
        /\ current_index = 0
        /\ Len(a) = last.arg
        /\ \A j \in 1 .. Len(a) : a[j] = last.val[1]

\* a buffer of at least two slots just constructed
C10_Witness ==
    /\ last.op = "new"
    /\ last.arg >= 2
    /\ last.val = Some(1)

\* C11: immutable iteration is finite and single-pass: iter() starts at
\* logical index 0; its next() calls yield exactly len() elements, the j-th
\* being buffer[j]; at position len() every next() returns None and the
\* position stays; on an empty buffer the first next() returns None without
\* an indexed access (no panic); iterating changes neither storage nor offset.
C11_IterSinglePass ==
    /\ last.op = "iter" =>
           /\ RingBufferIter.live
           /\ RingBufferIter.index = 0
           /\ RingBufferIter.out = << >>
    /\ RingBufferIter.live =>
           LET N == Len(elements)
               out == RingBufferIter.out
           IN  /\ RingBufferIter.index = Len(out)
               /\ Len(out) <= N
               /\ \A j \in 1 .. Len(out) :
                     out[j] = elements[((current_index + j - 1) % N) + 1]
               /\ RingBufferIter.ended => Len(out) = N
    /\ last.op = "iter_next" =>
           /\ ~last.panicked
           /\ elements = last.pre_elements
           /\ current_index = last.pre_index
           /\ last.arg < Len(elements) =>
                  /\ last.ret = index(elements, current_index, last.arg,
                                      overflow_checks).ret
                  /\ last.ret # None
                  /\ RingBufferIter.index = last.arg + 1
                  /\ ~RingBufferIter.ended
           /\ last.arg >= Len(elements) =>
                  /\ last.ret = None
                  /\ RingBufferIter.index = last.arg
                  /\ RingBufferIter.ended

\* a traversal of a rotated three-slot buffer whose slots differ, run to
\* the None after the third element
C11_Witness ==
    /\ last.op = "iter_next"
    /\ last.ret = None
    /\ RingBufferIter.ended
    /\ Len(RingBufferIter.out) = 3
    /\ current_index % 3 # 0
    /\ Range(elements) = Values

\* C12: rotate(delta) changes only the rotation offset: the storage (every
\* slot's value and position) and len() are as before the call, for any
\* delta and any length, 0 included.
C12_RotateFrame ==
    last.op = "rotate" =>
        /\ elements = last.pre_elements
        /\ len(elements) = Len(last.pre_elements)
        /\ RingBufferIter = NoIter
        /\ RingBufferIterMut = NoIterMut

\* a rotation, not a multiple of N, of a three-slot buffer whose slots differ
C12_Witness ==
    /\ last.op = "rotate"
    /\ Len(elements) = 3
    /\ last.arg % 3 # 0
    /\ Range(elements) = Values
    /\ current_index # last.pre_index

\* C13: write-through: with N > 0, after buffer[i] = v a read of buffer[i]
\* returns v; the write lands in one physical slot and every other slot,
\* every logical position j not congruent to i modulo N, the length and the
\* rotation offset are as before.
C13_WriteThrough ==
    (last.op = "index_mut" /\ Len(last.pre_elements) > 0) =>
        LET N == Len(last.pre_elements)
            now(j) == index(elements, current_index, j, overflow_checks)
            was(j) == index(last.pre_elements, last.pre_index, j,
                            overflow_checks)
        IN  /\ ~last.panicked
            /\ now(last.arg).ret = last.val
            /\ len(elements) = N
            /\ current_index = last.pre_index
            /\ Cardinality({p \in 1 .. N : elements[p] # last.pre_elements[p]})
                 <= 1
            /\ \A p \in 1 .. N :
                  p # last.slot[1] + 1 => elements[p] = last.pre_elements[p]
            /\ \A j \in Indices :
                  (j - last.arg) % N # 0 => now(j) = was(j)

\* a write, through a negative index, that changes the value of a slot of a
\* rotated three-slot buffer
C13_Witness ==
    /\ last.op = "index_mut"
    /\ Len(last.pre_elements) = 3
    /\ last.pre_index % 3 # 0
    /\ last.arg < 0
    /\ elements # last.pre_elements
    /\ ~last.panicked

\* C14: the length changes only through resize: len() is the size given to
\* new or to the most recent resize, whatever writes, rotations and
\* traversals followed, and is_empty() = (len() = 0) in every state.
C14_LenOnlyByResize ==
    /\ is_empty(elements) = (len(elements) = 0)
    /\ last.op \in {"new", "resize"} => len(elements) = last.arg
    /\ last.op \notin {"new", "resize"} =>
           len(elements) = Len(last.pre_elements)

\* C14, the part the code keeps: no call but a resize that completes changes
\* the length, and a resize that completes sets it to new_size.
C14_LenOnlyByCompletedResize ==
    /\ is_empty(elements) = (len(elements) = 0)
    /\ (last.op = "new" \/ (last.op = "resize" /\ ~last.panicked)) =>
           len(elements) = last.arg
    /\ (last.op \notin {"new", "resize"} \/ last.panicked) =>
           len(elements) = Len(last.pre_elements)

\* C15: the offset accumulates additively and is not reduced modulo N by
\* rotate: rotate(a) adds a; rotate(a) then rotate(b) gives the state of
\* rotate(a + b); rotate(k) then rotate(-k), and rotate(m * N), leave iter()
\* as it was; resize sets the offset to 0 and no other call but rotate
\* changes it.
C15_OffsetAdditive ==
    /\ last.op = "rotate" =>
           LET N == Len(elements)
               a == last.arg
               back == rotate(current_index, -a, overflow_checks)
               before == iter(last.pre_elements, last.pre_index,
                              overflow_checks)
           IN  /\ ~last.panicked
               /\ current_index = last.pre_index + a
               /\ \A b \in Deltas :
                     rotate(current_index, b, overflow_checks)
                       = rotate(last.pre_index, a + b, overflow_checks)
               /\ ~back.panic
               /\ iter(elements, back.current_index, overflow_checks) = before
               /\ (N > 0 /\ a % N = 0) =>
                     iter(elements, current_index, overflow_checks) = before
    /\ (last.op = "resize" /\ ~last.panicked) => current_index = 0
    /\ last.op \notin {"rotate", "resize", "new"} =>
           current_index = last.pre_index

\* a second rotation that takes the offset of a three-slot buffer whose
\* slots differ to a magnitude of N or more
C15_Witness ==
    /\ last.op = "rotate"
    /\ Len(elements) = 3
    /\ last.pre_index # 0
    /\ last.arg # 0
    /\ (current_index >= 3 \/ current_index <= -3)
    /\ Range(elements) = Values

InIsize(x) == x >= IsizeMin /\ x <= IsizeMax

\* the isize congruent to x modulo 2^IsizeBits
Congruent(x) ==
    CHOOSE y \in IsizeMin .. IsizeMax : (y - x) % (2 ^ IsizeBits) = 0

\* C16 as claimed: the offset behaves as an unbounded integer: every
\* rotate(d) with a representable d adds d to the stored offset, and
\* index(i) with a representable i accesses slot (offset + i) mod N; neither
\* addition overflows or wraps modulo 2^w.
C16_OffsetUnbounded ==
    /\ last.op = "rotate" =>
           /\ ~last.panicked
           /\ current_index = last.pre_index + last.arg
    /\ (last.op = "index" /\ Len(elements) > 0) =>
           /\ ~last.panicked
           /\ last.slot = Some((last.pre_index + last.arg) % Len(elements))

\* C16 as amended: the offset is a w-bit isize.  While offset + d (in
\* rotate) and offset + i (at access time) are representable, rotate adds d
\* exactly and index(i) accesses slot (offset + i) mod N.  When the sum is
\* not representable, an overflow-checked build panics and leaves the
\* buffer as it was, and an unchecked build wraps the sum modulo 2^w.
C16_OffsetWithinIsize ==
    /\ InIsize(current_index)
    /\ last.op = "rotate" =>
           LET s == last.pre_index + last.arg IN
           IF InIsize(s)
           THEN ~last.panicked /\ current_index = s
           ELSE IF overflow_checks
                THEN last.panicked /\ current_index = last.pre_index
                ELSE ~last.panicked /\ current_index = Congruent(s)
    /\ (last.op = "index" /\ Len(elements) > 0) =>
           LET s == last.pre_index + last.arg
               N == Len(elements)
           IN
           IF InIsize(s)
           THEN ~last.panicked /\ last.slot = Some(s % N)
           ELSE IF overflow_checks
                THEN last.panicked /\ last.slot = None /\ last.ret = None
                ELSE ~last.panicked /\ last.slot = Some(Congruent(s) % N)

\* a read of a three-slot buffer in an unchecked build whose offset + i
\* wrapped, landing in another slot than (offset + i) mod N
C16_Witness ==
    /\ last.op = "index"
    /\ Len(elements) = 3
    /\ ~overflow_checks
    /\ ~InIsize(last.pre_index + last.arg)
    /\ ~last.panicked
    /\ last.slot # Some((last.pre_index + last.arg) % 3)

=============================================================================
